---------------------------- MODULE Spec2Model ----------------------------
(***************************************************************************)
(* Model of the generic helper module of the storage-management console    *)
(* (webapps/frontend/lib/ovs/generic.js): the binary searches patched onto *)
(* Array.prototype, crossFiller, merge and arrayEquals.                    *)
(*                                                                         *)
(* JavaScript arrays are 0-based; they are modelled as TLA+ sequences and  *)
(* every index that the code handles or returns is kept 0-based, so the    *)
(* element at JavaScript index i is arr[i + 1].                            *)
(***************************************************************************)
EXTENDS Integers, Sequences, FiniteSets, TLC

VARIABLES
    arr,          \* brSearch*: the array the search is called on (this)
    value,        \* brSearch*: the value looked for
    prop,         \* brSearch*: the optional property name
    searchCall,   \* brSearch*: the last call made and what it returned
    objectList,   \* crossFiller: the observable array being reconciled
    fillCall,     \* crossFiller: the last call made, its inputs and effects
    targetObject, \* merge: the live object that merge updates in place
    mergeCall,    \* merge: the last call made and its inputs
    array1,       \* arrayEquals: first array
    array2,       \* arrayEquals: second array
    equalsCall,   \* arrayEquals: the last comparison made and its result
    partitions,   \* disk: the observable array of the disk's partitions
    size,         \* disk: the size of the disk
    fullPartitionsRun, \* fullPartitions: where its evaluation is, and its data
    disk          \* disk: its handles and flags, the requests made and the promises returned

searchVars == <<arr, value, prop, searchCall>>
fillVars   == <<objectList, fillCall>>
mergeVars  == <<targetObject, mergeCall>>
equalsVars == <<array1, array2, equalsCall>>
partitionVars == <<partitions, size, fullPartitionsRun>>
diskVars == <<disk>>
vars == <<arr, value, prop, searchCall, objectList, fillCall,
          targetObject, mergeCall, array1, array2, equalsCall,
          partitions, size, fullPartitionsRun,
          disk>>

----------------------------------------------------------------------------
(* Bounds of the model.                                                    *)

\* longest array handed to the searches
MaxLen == 4
\* the values stored in a searched array: below, equal to and above a
\* searched value, which is all a comparison-based search can tell apart
SearchValues == {0, 1, 2}
\* the keys (guids) that objects and key lists are made of
MaxKey == 3
\* longest observable array and longest new key list given to crossFiller
MaxList == 2
\* longest list of field names given to merge
MaxFieldNames == 2
\* the field names and field values of the objects given to merge
Fields == {"x", "y"}
MergeNumbers == {1, 2}
\* longest array given to arrayEquals (arrays nested in it hold one entry
\* at most)
MaxArrLen == 2
\* most partitions on a disk; the sizes of a disk and of its partitions, and
\* the gaps between partitions, in the same unit
MaxPartitions == 20
DiskSizes == {100}
PartitionSizes == {2, 5}
FirstPartitionSizes == {2, 5, 50}
PartitionGaps == {0, 2}
\* most calls of load() and getPartitions() made on a disk, taken together
MaxCalls == 3
\* the guids of the partitions the server may report for the disk
PartitionGuids == {1, 2, 3}

----------------------------------------------------------------------------
(* JavaScript values.  Every value is a record of the same shape so that   *)
(* values of different JavaScript types can be compared.                   *)

Num(n) == [t |-> "number", v |-> n, items |-> <<>>]
Undefined == [t |-> "undefined", v |-> 0, items |-> <<>>]
NaN == [t |-> "NaN", v |-> 0, items |-> <<>>]
Arr(s) == [t |-> "array", v |-> 0, items |-> s]
Null == [t |-> "null", v |-> 0, items |-> <<>>]
\* a plain object ({...}): id is its identity, items maps the names of its
\* own properties to their values
Obj(id, f) == [t |-> "object", v |-> id, items |-> f]

\* a === b : NaN equals nothing, not even itself; two objects are identical
\* when they are the same object (same id).  Two array values stand for two
\* distinct array objects, so an array is identical to nothing.
StrictEq(a, b) ==
    /\ a.t = b.t
    /\ a.t # "NaN"
    /\ a.t # "array"
    /\ a.v = b.v

\* a > b on numbers; a comparison with undefined or NaN is false
Gt(a, b) == a.t = "number" /\ b.t = "number" /\ a.v > b.v

\* a < b
Lt(a, b) == Gt(b, a)

----------------------------------------------------------------------------
(* Array.prototype.getItemUnwrap, brSearch, brSearchFirst, brSearchLast    *)

\* the marker for "no property name given" (typeof prop === 'undefined')
NoProp == "undefined"

getItemUnwrap(this, index, p) ==
    IF index > Len(this) - 1 \/ index < 0
    THEN Undefined
    ELSE IF p # NoProp THEN this[index + 1][p] ELSE this[index + 1]

\* this.slice(from, to)
slice(this, from, to) == SubSeq(this, from + 1, to)

\* faulty variant: the index found in the upper half is not shifted back
RECURSIVE brSearch_NoOffset(_, _, _)
brSearch_NoOffset(this, val, p) ==
    IF Len(this) = 0 THEN -1
    ELSE
      LET middleIndex == Len(this) \div 2
          middleItem == getItemUnwrap(this, middleIndex, p)
      IN  IF Len(this) = 1 /\ ~StrictEq(middleItem, val) THEN -1
          ELSE IF StrictEq(val, middleItem) THEN middleIndex
          ELSE IF Gt(val, middleItem)
               THEN brSearch_NoOffset(slice(this, middleIndex + 1, Len(this)), val, p)
               ELSE brSearch_NoOffset(slice(this, 0, middleIndex), val, p)

\* faulty variant: a -1 from the upper half is shifted like an index
RECURSIVE brSearch_NoNotFoundCheck(_, _, _)
brSearch_NoNotFoundCheck(this, val, p) ==
    IF Len(this) = 0 THEN -1
    ELSE
      LET middleIndex == Len(this) \div 2
          middleItem == getItemUnwrap(this, middleIndex, p)
      IN  IF Len(this) = 1 /\ ~StrictEq(middleItem, val) THEN -1
          ELSE IF StrictEq(val, middleItem) THEN middleIndex
          ELSE IF Gt(val, middleItem)
               THEN middleIndex + 1
                    + brSearch_NoNotFoundCheck(slice(this, middleIndex + 1, Len(this)), val, p)
               ELSE brSearch_NoNotFoundCheck(slice(this, 0, middleIndex), val, p)

RECURSIVE brSearch(_, _, _)
brSearch(this, val, p) ==
    IF Len(this) = 0 THEN -1
    ELSE
      LET middleIndex == Len(this) \div 2
          middleItem == getItemUnwrap(this, middleIndex, p)
      IN  IF Len(this) = 1 /\ ~StrictEq(middleItem, val) THEN -1
          ELSE IF StrictEq(val, middleItem) THEN middleIndex
          ELSE IF Gt(val, middleItem)
               THEN LET additionalIndex ==
                          brSearch(slice(this, middleIndex + 1, Len(this)), val, p)
                    IN  IF additionalIndex = -1 THEN -1
                        ELSE middleIndex + 1 + additionalIndex
               ELSE brSearch(slice(this, 0, middleIndex), val, p)

\* faulty variant: any matching index is accepted as the first
RECURSIVE brSearchFirst_AnyMatch(_, _, _, _, _)
brSearchFirst_AnyMatch(this, val, p, start, end) ==
    LET s == IF start = Undefined THEN 0 ELSE start.v
        e == IF end = Undefined THEN Len(this) - 1 ELSE end.v
    IN  IF e < s THEN -1
        ELSE
          LET middleIndex == s + ((e - s) \div 2)
              middleItem == getItemUnwrap(this, middleIndex, p)
          IN  IF StrictEq(middleItem, val) THEN middleIndex
              ELSE IF Gt(val, middleItem)
                   THEN brSearchFirst_AnyMatch(this, val, p, Num(middleIndex + 1), Num(e))
                   ELSE brSearchFirst_AnyMatch(this, val, p, Num(s), Num(middleIndex - 1))

\* faulty variant: bounds given the wrong way round are put right and searched
brSearchFirst_SwapBounds(this, val, p, start, end) ==
    LET s == IF start = Undefined THEN 0 ELSE start.v
        e == IF end = Undefined THEN Len(this) - 1 ELSE end.v
    IN  IF e < s THEN brSearchFirst_AnyMatch(this, val, p, Num(e), Num(s))
        ELSE brSearchFirst_AnyMatch(this, val, p, Num(s), Num(e))

\* start/end are JavaScript values: Undefined when the argument is omitted
RECURSIVE brSearchFirst(_, _, _, _, _)
brSearchFirst(this, val, p, start, end) ==
    LET s == IF start = Undefined THEN 0 ELSE start.v
        e == IF end = Undefined THEN Len(this) - 1 ELSE end.v
    IN  IF e < s THEN -1
        ELSE
          LET middleIndex == s + ((e - s) \div 2)
              middleItem == getItemUnwrap(this, middleIndex, p)
              previousItem == getItemUnwrap(this, middleIndex - 1, p)
          IN  IF (previousItem = Undefined \/ Gt(val, previousItem))
                 /\ StrictEq(middleItem, val)
              THEN middleIndex
              ELSE IF Gt(val, middleItem)
                   THEN brSearchFirst(this, val, p, Num(middleIndex + 1), Num(e))
                   ELSE brSearchFirst(this, val, p, Num(s), Num(middleIndex - 1))

\* faulty variant: any matching index is accepted as the last
RECURSIVE brSearchLast_AnyMatch(_, _, _, _, _)
brSearchLast_AnyMatch(this, val, p, start, end) ==
    LET s == IF start = Undefined THEN 0 ELSE start.v
        e == IF end = Undefined THEN Len(this) - 1 ELSE end.v
    IN  IF e < s THEN -1
        ELSE
          LET middleIndex == s + ((e - s) \div 2)
              middleItem == getItemUnwrap(this, middleIndex, p)
          IN  IF StrictEq(middleItem, val) THEN middleIndex
              ELSE IF Lt(val, middleItem)
                   THEN brSearchLast_AnyMatch(this, val, p, Num(s), Num(middleIndex - 1))
                   ELSE brSearchLast_AnyMatch(this, val, p, Num(middleIndex + 1), Num(e))

RECURSIVE brSearchLast(_, _, _, _, _)
brSearchLast(this, val, p, start, end) ==
    LET s == IF start = Undefined THEN 0 ELSE start.v
        e == IF end = Undefined THEN Len(this) - 1 ELSE end.v
    IN  IF e < s THEN -1
        ELSE
          LET middleIndex == s + ((e - s) \div 2)
              middleItem == getItemUnwrap(this, middleIndex, p)
              nextItem == getItemUnwrap(this, middleIndex + 1, p)
          IN  IF (nextItem = Undefined \/ Lt(val, nextItem))
                 /\ StrictEq(middleItem, val)
              THEN middleIndex
              ELSE IF Lt(val, middleItem)
                   THEN brSearchLast(this, val, p, Num(s), Num(middleIndex - 1))
                   ELSE brSearchLast(this, val, p, Num(middleIndex + 1), Num(e))

\* the number of getItemUnwrap calls that brSearchFirst makes (lines 107-108
\* of every invocation that passes the test of line 103)
RECURSIVE brSearchFirstReads(_, _, _, _, _)
brSearchFirstReads(this, val, p, start, end) ==
    LET s == IF start = Undefined THEN 0 ELSE start.v
        e == IF end = Undefined THEN Len(this) - 1 ELSE end.v
    IN  IF e < s THEN 0
        ELSE
          LET middleIndex == s + ((e - s) \div 2)
              middleItem == getItemUnwrap(this, middleIndex, p)
              previousItem == getItemUnwrap(this, middleIndex - 1, p)
          IN  IF (previousItem = Undefined \/ Gt(val, previousItem))
                 /\ StrictEq(middleItem, val)
              THEN 2
              ELSE IF Gt(val, middleItem)
                   THEN 2 + brSearchFirstReads(this, val, p, Num(middleIndex + 1), Num(e))
                   ELSE 2 + brSearchFirstReads(this, val, p, Num(s), Num(middleIndex - 1))

\* the number of getItemUnwrap calls that brSearchLast makes (lines 136-137)
RECURSIVE brSearchLastReads(_, _, _, _, _)
brSearchLastReads(this, val, p, start, end) ==
    LET s == IF start = Undefined THEN 0 ELSE start.v
        e == IF end = Undefined THEN Len(this) - 1 ELSE end.v
    IN  IF e < s THEN 0
        ELSE
          LET middleIndex == s + ((e - s) \div 2)
              middleItem == getItemUnwrap(this, middleIndex, p)
              nextItem == getItemUnwrap(this, middleIndex + 1, p)
          IN  IF (nextItem = Undefined \/ Lt(val, nextItem))
                 /\ StrictEq(middleItem, val)
              THEN 2
              ELSE IF Lt(val, middleItem)
                   THEN 2 + brSearchLastReads(this, val, p, Num(s), Num(middleIndex - 1))
                   ELSE 2 + brSearchLastReads(this, val, p, Num(middleIndex + 1), Num(e))

----------------------------------------------------------------------------
(* The search calls.  The array, the value and the property name are drawn *)
(* in Init (sorted and unsorted arrays alike: the code does not check);    *)
(* each action is one call of one of the three methods.                    *)

\* an array of plain numbers, or of objects whose property p holds the number
WrapItems(s, p) ==
    [i \in 1..Len(s) |-> IF p = NoProp THEN Num(s[i]) ELSE [guid |-> Num(s[i])]]

SearchSeqs == UNION {[1..n -> SearchValues] : n \in 0..MaxLen}

\* the start and end arguments: omitted, or an index (-1 and the length
\* included, which are outside the array)
SearchBounds == {Undefined} \cup {Num(i) : i \in -1..MaxLen}

\* reads: how many times the call fetched an item with getItemUnwrap (kept
\* for brSearchFirst and brSearchLast)
NoSearch == [fn |-> "none", start |-> Undefined, end |-> Undefined, result |-> -1,
             reads |-> 0]

BrSearch ==
    /\ searchCall.fn = "none"
    /\ searchCall' = [fn |-> "brSearch", start |-> Undefined, end |-> Undefined,
                      result |-> brSearch(arr, value, prop), reads |-> 0]
    /\ UNCHANGED <<arr, value, prop, fillVars, mergeVars, equalsVars, partitionVars, diskVars>>

BrSearchFirst ==
    /\ searchCall.fn = "none"
    /\ \E start \in SearchBounds, end \in SearchBounds :
          searchCall' = [fn |-> "brSearchFirst", start |-> start, end |-> end,
                         result |-> brSearchFirst(arr, value, prop, start, end),
                         reads |-> brSearchFirstReads(arr, value, prop, start, end)]
    /\ UNCHANGED <<arr, value, prop, fillVars, mergeVars, equalsVars, partitionVars, diskVars>>

BrSearchLast ==
    /\ searchCall.fn = "none"
    /\ \E start \in SearchBounds, end \in SearchBounds :
          searchCall' = [fn |-> "brSearchLast", start |-> start, end |-> end,
                         result |-> brSearchLast(arr, value, prop, start, end),
                         reads |-> brSearchLastReads(arr, value, prop, start, end)]
    /\ UNCHANGED <<arr, value, prop, fillVars, mergeVars, equalsVars, partitionVars, diskVars>>

----------------------------------------------------------------------------
(* Properties of the searches                                              *)

\* the element at 0-based index i, projected on the property when one is given
ItemAt(i) == getItemUnwrap(arr, i, prop)

Indices == 0..(Len(arr) - 1)

\* non-decreasing under the comparison the searches use
IsSorted == \A i \in Indices : i + 1 \in Indices => ~Gt(ItemAt(i), ItemAt(i + 1))

MatchingIndices == {i \in Indices : StrictEq(ItemAt(i), value)}

NoBoundsGiven == searchCall.start = Undefined /\ searchCall.end = Undefined

\* C1: on a sorted array that holds the value, brSearch returns an index
\* inside the array at which the value stands.
C1_SearchFindsPresent ==
    (searchCall.fn = "brSearch" /\ IsSorted /\ MatchingIndices # {})
        => (searchCall.result \in Indices
            /\ StrictEq(ItemAt(searchCall.result), value))

C1_Witness ==
    /\ searchCall.fn = "brSearch"
    /\ IsSorted
    /\ prop = "guid"
    /\ Len(arr) = 4
    /\ MatchingIndices = {0, 1}
    /\ searchCall.result = 1

\* C2: on a sorted array (the empty one included) that does not hold the
\* value, brSearch, brSearchFirst and brSearchLast called without bounds
\* all return -1.
C2_AbsentGivesMinusOne ==
    (searchCall.fn # "none" /\ NoBoundsGiven /\ IsSorted /\ MatchingIndices = {})
        => searchCall.result = -1

C2_Witness ==
    /\ searchCall.fn = "brSearchLast"
    /\ NoBoundsGiven
    /\ IsSorted
    /\ Len(arr) = 3
    /\ MatchingIndices = {}
    /\ \E i \in Indices : Gt(value, ItemAt(i))
    /\ \E i \in Indices : Lt(value, ItemAt(i))
    /\ searchCall.result = -1

\* C3: on a sorted array that holds the value once or more, brSearchFirst
\* called without bounds returns the lowest index at which the value stands.
C3_FirstIsLowest ==
    (searchCall.fn = "brSearchFirst" /\ NoBoundsGiven /\ IsSorted
     /\ MatchingIndices # {})
        => (searchCall.result \in MatchingIndices
            /\ \A i \in MatchingIndices : searchCall.result <= i)

C3_Witness ==
    /\ searchCall.fn = "brSearchFirst"
    /\ NoBoundsGiven
    /\ IsSorted
    /\ Cardinality(MatchingIndices) = 3
    /\ searchCall.result = 1

\* C4: on a sorted array that holds the value once or more, brSearchLast
\* called without bounds returns the highest index at which the value stands.
C4_LastIsHighest ==
    (searchCall.fn = "brSearchLast" /\ NoBoundsGiven /\ IsSorted
     /\ MatchingIndices # {})
        => (searchCall.result \in MatchingIndices
            /\ \A i \in MatchingIndices : searchCall.result >= i)

C4_Witness ==
    /\ searchCall.fn = "brSearchLast"
    /\ NoBoundsGiven
    /\ IsSorted
    /\ Cardinality(MatchingIndices) = 3
    /\ searchCall.result = 2

BoundsGiven == searchCall.start # Undefined /\ searchCall.end # Undefined

\* C12: brSearchFirst and brSearchLast called on any array (sorted or not)
\* with any value and with bounds such that end < start return -1 and fetch
\* no item on the way (so nothing that could raise an error is evaluated).
C12_MalformedBoundsNotFound ==
    (searchCall.fn \in {"brSearchFirst", "brSearchLast"} /\ BoundsGiven
     /\ searchCall.end.v < searchCall.start.v)
        => (searchCall.result = -1 /\ searchCall.reads = 0)

\* the value stands between end and start, an unsorted array included
C12_Witness ==
    /\ searchCall.fn = "brSearchFirst"
    /\ searchCall.start = Num(3) /\ searchCall.end = Num(1)
    /\ ~IsSorted
    /\ 2 \in MatchingIndices
    /\ searchCall.result = -1
    /\ searchCall.reads = 0

\* the indices between the bounds of the call at which the value stands
MatchingInBounds ==
    {i \in MatchingIndices : searchCall.start.v <= i /\ i <= searchCall.end.v}

WellFormedBounds ==
    /\ BoundsGiven
    /\ 0 <= searchCall.start.v
    /\ searchCall.start.v <= searchCall.end.v
    /\ searchCall.end.v < Len(arr)

\* C13: on a sorted array, with bounds 0 <= start <= end < length,
\* brSearchFirst returns the lowest index between start and end at which
\* the value stands and brSearchLast the highest, and -1 only when the value
\* does not stand between start and end; also when the item before start
\* (after end) equals the value.
C13_BoundedFirstLast ==
    (searchCall.fn \in {"brSearchFirst", "brSearchLast"} /\ WellFormedBounds /\ IsSorted)
        => IF MatchingInBounds = {} THEN searchCall.result = -1
           ELSE /\ searchCall.result \in MatchingInBounds
                /\ \A i \in MatchingInBounds :
                      IF searchCall.fn = "brSearchFirst"
                      THEN searchCall.result <= i
                      ELSE searchCall.result >= i

----------------------------------------------------------------------------
(* crossFiller(newKeyList, objectList, objectLoader, key, clean)           *)
(*                                                                         *)
(* An object of the list is [key |-> k, id |-> n]: key is what its key     *)
(* observable returns (objectList()[i][key]()), id tells objects apart     *)
(* (object identity).  The loader is a function of the key that, for each  *)
(* key, returns a new object with that key ("keyed"), returns a new object *)
(* with another key ("stray"), returns undefined or throws.                *)

Keys == 1..MaxKey

LoaderKinds == {"keyed", "stray", "undefined", "throws"}

\* what objectLoader does when called with key k
LoaderOutcome(loader, k) ==
    IF loader.kind # "keyed" /\ loader.at = k THEN loader.kind ELSE "keyed"

\* the object that objectLoader(k) returns when it returns one
objectLoader(loader, k, id) ==
    IF LoaderOutcome(loader, k) = "stray"
    THEN [key |-> (k % MaxKey) + 1, id |-> id]
    ELSE [key |-> k, id |-> id]

\* $.inArray(x, s): the first 0-based index of x in s, or -1
RECURSIVE inArrayFrom(_, _, _)
inArrayFrom(x, s, i) ==
    IF i > Len(s) THEN -1
    ELSE IF s[i] = x THEN i - 1
    ELSE inArrayFrom(x, s, i + 1)

inArray(x, s) == inArrayFrom(x, s, 1)

\* lines 517-519: the keys of the objects, in list order
currentKeys(list) == [i \in 1..Len(list) |-> list[i].key]

\* list.splice(j, 1) with 0-based j
splice1(list, j) == SubSeq(list, 1, j) \o SubSeq(list, j + 2, Len(list))

\* lines 535-540: remove the first object whose key is k, if there is one
removeFirstWithKey(list, k) ==
    LET j == inArray(k, currentKeys(list))
    IN  IF j = -1 THEN list ELSE splice1(list, j)

\* faulty variant: puts a loaded object in front of the list
RECURSIVE fillLoop_Unshift(_, _, _, _, _)
fillLoop_Unshift(newKeyList, i, currentKeyList, loader, st) ==
    IF i > Len(newKeyList) THEN st
    ELSE IF inArray(newKeyList[i], currentKeyList) # -1
         THEN fillLoop_Unshift(newKeyList, i + 1, currentKeyList, loader, st)
    ELSE
      LET k == newKeyList[i]
          outcome == LoaderOutcome(loader, k)
          called == [st EXCEPT !.calls = Append(@, k)]
      IN  IF outcome = "throws" THEN [called EXCEPT !.threw = TRUE]
          ELSE IF outcome = "undefined"
               THEN fillLoop_Unshift(newKeyList, i + 1, currentKeyList, loader, called)
          ELSE
            LET loadedObject == objectLoader(loader, k, st.nextId)
            IN  fillLoop_Unshift(newKeyList, i + 1, currentKeyList, loader,
                         [called EXCEPT !.list = <<loadedObject>> \o @,
                                        !.loaded = Append(@, loadedObject),
                                        !.nextId = @ + 1])

\* faulty variant: loads every new key, in the list already or not
RECURSIVE fillLoop_NoPresenceCheck(_, _, _, _, _)
fillLoop_NoPresenceCheck(newKeyList, i, currentKeyList, loader, st) ==
    IF i > Len(newKeyList) THEN st
    ELSE
      LET k == newKeyList[i]
          outcome == LoaderOutcome(loader, k)
          called == [st EXCEPT !.calls = Append(@, k)]
      IN  IF outcome = "throws" THEN [called EXCEPT !.threw = TRUE]
          ELSE IF outcome = "undefined"
               THEN fillLoop_NoPresenceCheck(newKeyList, i + 1, currentKeyList,
                                             loader, called)
          ELSE
            LET loadedObject == objectLoader(loader, k, st.nextId)
            IN  fillLoop_NoPresenceCheck(newKeyList, i + 1, currentKeyList, loader,
                         [called EXCEPT !.list = Append(@, loadedObject),
                                        !.loaded = Append(@, loadedObject),
                                        !.nextId = @ + 1])

\* lines 520-529, from position i (1-based) of newKeyList on.  st is
\* [list, calls, loaded, threw, nextId]: the list so far, the keys the
\* loader was called with, the objects it returned, whether it threw, and
\* the identity of the next object it creates.
RECURSIVE fillLoop(_, _, _, _, _)
fillLoop(newKeyList, i, currentKeyList, loader, st) ==
    IF i > Len(newKeyList) THEN st
    ELSE IF inArray(newKeyList[i], currentKeyList) # -1
         THEN fillLoop(newKeyList, i + 1, currentKeyList, loader, st)
    ELSE
      LET k == newKeyList[i]
          outcome == LoaderOutcome(loader, k)
          called == [st EXCEPT !.calls = Append(@, k)]
      IN  IF outcome = "throws" THEN [called EXCEPT !.threw = TRUE]
          ELSE IF outcome = "undefined"
               THEN fillLoop(newKeyList, i + 1, currentKeyList, loader, called)
          ELSE
            LET loadedObject == objectLoader(loader, k, st.nextId)
            IN  fillLoop(newKeyList, i + 1, currentKeyList, loader,
                         [called EXCEPT !.list = Append(@, loadedObject),
                                        !.loaded = Append(@, loadedObject),
                                        !.nextId = @ + 1])

\* faulty variant: removes for the first occurrence of a key in the old key
\* list only
RECURSIVE cleanLoop_OncePerKey(_, _, _, _)
cleanLoop_OncePerKey(currentKeyList, i, newKeyList, list) ==
    IF i > Len(currentKeyList) THEN list
    ELSE IF inArray(currentKeyList[i], newKeyList) = -1
            /\ inArray(currentKeyList[i], currentKeyList) = i - 1
         THEN cleanLoop_OncePerKey(currentKeyList, i + 1, newKeyList,
                        removeFirstWithKey(list, currentKeyList[i]))
         ELSE cleanLoop_OncePerKey(currentKeyList, i + 1, newKeyList, list)

\* lines 531-542, from position i (1-based) of currentKeyList on
RECURSIVE cleanLoop(_, _, _, _)
cleanLoop(currentKeyList, i, newKeyList, list) ==
    IF i > Len(currentKeyList) THEN list
    ELSE IF inArray(currentKeyList[i], newKeyList) = -1
         THEN cleanLoop(currentKeyList, i + 1, newKeyList,
                        removeFirstWithKey(list, currentKeyList[i]))
         ELSE cleanLoop(currentKeyList, i + 1, newKeyList, list)

\* the fresh identity for the first object the loader creates
FreshId(list) ==
    IF list = <<>> THEN 1
    ELSE 1 + (CHOOSE m \in {list[i].id : i \in 1..Len(list)} :
                 \A i \in 1..Len(list) : list[i].id <= m)

\* faulty variant: prunes only when clean is given as true
crossFiller_CleanOnlyIfTrue(newKeyList, list, loader, clean) ==
    LET currentKeyList == currentKeys(list)
        filled == fillLoop(newKeyList, 1, currentKeyList, loader,
                           [list |-> list, calls |-> <<>>, loaded |-> <<>>,
                            threw |-> FALSE, nextId |-> FreshId(list)])
    IN  IF filled.threw \/ clean # "true" THEN filled
        ELSE [filled EXCEPT
                !.list = cleanLoop(currentKeyList, 1, newKeyList, filled.list)]

\* faulty variant: prunes whatever clean is
crossFiller_AlwaysClean(newKeyList, list, loader, clean) ==
    LET currentKeyList == currentKeys(list)
        filled == fillLoop(newKeyList, 1, currentKeyList, loader,
                           [list |-> list, calls |-> <<>>, loaded |-> <<>>,
                            threw |-> FALSE, nextId |-> FreshId(list)])
    IN  IF filled.threw THEN filled
        ELSE [filled EXCEPT
                !.list = cleanLoop(currentKeyList, 1, newKeyList, filled.list)]

\* faulty variant: goes on to prune after the loader has thrown
crossFiller_CleanAfterThrow(newKeyList, list, loader, clean) ==
    LET currentKeyList == currentKeys(list)
        filled == fillLoop(newKeyList, 1, currentKeyList, loader,
                           [list |-> list, calls |-> <<>>, loaded |-> <<>>,
                            threw |-> FALSE, nextId |-> FreshId(list)])
    IN  IF clean = "false" THEN filled
        ELSE [filled EXCEPT
                !.list = cleanLoop(currentKeyList, 1, newKeyList, filled.list)]

\* the whole function; clean is "true", "false" or "undefined" (omitted).
\* A throw of the loader leaves the function at once (nothing catches it).
crossFiller(newKeyList, list, loader, clean) ==
    LET currentKeyList == currentKeys(list)
        filled == fillLoop(newKeyList, 1, currentKeyList, loader,
                           [list |-> list, calls |-> <<>>, loaded |-> <<>>,
                            threw |-> FALSE, nextId |-> FreshId(list)])
    IN  IF filled.threw \/ clean = "false" THEN filled
        ELSE [filled EXCEPT
                !.list = cleanLoop(currentKeyList, 1, newKeyList, filled.list)]

KeyLists == UNION {[1..n -> Keys] : n \in 0..MaxList}

\* the observable arrays a call may find: objects with any keys (repeated
\* keys included), each object with its own identity
ObjectLists == {[i \in 1..Len(ks) |-> [key |-> ks[i], id |-> i]] : ks \in KeyLists}

Loaders ==
    {[kind |-> "keyed", at |-> 1]}
        \cup {[kind |-> kd, at |-> k] : kd \in LoaderKinds \ {"keyed"}, k \in Keys}

CleanArgs == {"true", "false", "undefined"}

\* the record of the calls made: the arguments and the outcome of the first
\* call, and of the same call made once more right after it (again)
NoFill == [called |-> FALSE, newKeyList |-> <<>>, loader |-> [kind |-> "keyed", at |-> 1],
           clean |-> "undefined", before |-> <<>>, calls |-> <<>>,
           loaded |-> <<>>, threw |-> FALSE,
           again |-> FALSE, afterFirst |-> <<>>, againCalls |-> <<>>]

CrossFiller ==
    /\ ~fillCall.called
    /\ \E newKeyList \in KeyLists, loader \in Loaders, clean \in CleanArgs :
          LET r == crossFiller(newKeyList, objectList, loader, clean)
          IN  /\ objectList' = r.list
              /\ fillCall' = [called |-> TRUE, newKeyList |-> newKeyList,
                              loader |-> loader, clean |-> clean,
                              before |-> objectList, calls |-> r.calls,
                              loaded |-> r.loaded, threw |-> r.threw,
                              again |-> FALSE, afterFirst |-> r.list,
                              againCalls |-> <<>>]
    /\ UNCHANGED <<searchVars, mergeVars, equalsVars, partitionVars, diskVars>>

\* the same call once more, on the list the first call left
CrossFillerAgain ==
    /\ fillCall.called
    /\ ~fillCall.again
    /\ LET r == crossFiller(fillCall.newKeyList, objectList, fillCall.loader,
                            fillCall.clean)
       IN  /\ objectList' = r.list
           /\ fillCall' = [fillCall EXCEPT !.again = TRUE, !.againCalls = r.calls]
    /\ UNCHANGED <<searchVars, mergeVars, equalsVars, partitionVars, diskVars>>

----------------------------------------------------------------------------
(* Properties of crossFiller                                               *)

Range(s) == {s[i] : i \in 1..Len(s)}

Distinct(s) == \A i, j \in 1..Len(s) : i # j => s[i] # s[j]

\* the objects of list whose key is in keySet, in list order
RECURSIVE WithKeyIn(_, _)
WithKeyIn(list, keySet) ==
    IF list = <<>> THEN <<>>
    ELSE IF Head(list).key \in keySet
         THEN <<Head(list)>> \o WithKeyIn(Tail(list), keySet)
         ELSE WithKeyIn(Tail(list), keySet)

\* the keys of keyList that are not in keySet, in keyList order
RECURSIVE KeysNotIn(_, _)
KeysNotIn(keyList, keySet) ==
    IF keyList = <<>> THEN <<>>
    ELSE IF Head(keyList) \in keySet
         THEN KeysNotIn(Tail(keyList), keySet)
         ELSE <<Head(keyList)>> \o KeysNotIn(Tail(keyList), keySet)

BeforeKeys == Range(currentKeys(fillCall.before))

AbsentNewKeys == KeysNotIn(fillCall.newKeyList, BeforeKeys)

\* the loader returns, for every key of the new key list, an object with that key
LoaderIsKeyed ==
    \A k \in Range(fillCall.newKeyList) : LoaderOutcome(fillCall.loader, k) = "keyed"

\* the first call has returned and nothing has happened since
FirstCallDone == fillCall.called /\ ~fillCall.again

C5_Case ==
    /\ FirstCallDone
    /\ fillCall.clean # "false"
    /\ Distinct(currentKeys(fillCall.before))
    /\ Distinct(fillCall.newKeyList)
    /\ LoaderIsKeyed

\* C5: with pruning (clean true or omitted), distinct keys in the list,
\* distinct new keys and a loader that returns an object with the key asked
\* for, the list afterwards is the old objects whose key is a new key, in
\* their old order, followed by what the loader returned for every absent
\* new key, in new-key order; no object with another key is left.
C5_PruneResult ==
    C5_Case =>
        /\ objectList = WithKeyIn(fillCall.before, Range(fillCall.newKeyList))
                            \o fillCall.loaded
        /\ currentKeys(fillCall.loaded) = AbsentNewKeys
        /\ fillCall.calls = AbsentNewKeys
        /\ Range(currentKeys(objectList)) = Range(fillCall.newKeyList)

\* the scenario of the specification, on the keys of the model: the list
\* holds 1,2, the new keys are 2,3; 1 goes, 2 stays, 3 is appended
C5_Witness ==
    /\ C5_Case
    /\ fillCall.clean = "undefined"
    /\ currentKeys(fillCall.before) = <<1, 2>>
    /\ fillCall.newKeyList = <<2, 3>>
    /\ currentKeys(objectList) = <<2, 3>>
    /\ objectList[1] = fillCall.before[2]

\* C6: with clean = false nothing is removed: the old list is an unchanged
\* prefix of the list, and what follows is exactly what the loader returned,
\* the loader having been called only for new keys that were absent.
C6_NoPruneKeepsAll ==
    (FirstCallDone /\ fillCall.clean = "false") =>
        /\ objectList = fillCall.before \o fillCall.loaded
        /\ \A i \in 1..Len(fillCall.calls) :
              /\ fillCall.calls[i] \in Range(fillCall.newKeyList)
              /\ fillCall.calls[i] \notin BeforeKeys
        /\ ~fillCall.threw => fillCall.calls = AbsentNewKeys

C6_Witness ==
    /\ FirstCallDone
    /\ fillCall.clean = "false"
    /\ currentKeys(fillCall.before) = <<1, 2>>
    /\ fillCall.newKeyList = <<2, 3>>
    /\ currentKeys(objectList) = <<1, 2, 3>>

\* the positions (1-based) of the absent new keys at which the loader throws
ThrowingCalls ==
    {i \in 1..Len(AbsentNewKeys) :
        LoaderOutcome(fillCall.loader, AbsentNewKeys[i]) = "throws"}

FirstThrow == CHOOSE i \in ThrowingCalls : \A j \in ThrowingCalls : i <= j

C15_Case == FirstCallDone /\ ThrowingCalls # {}

\* C15: when the loader throws for an absent new key, the error leaves
\* crossFiller (and crossFiller throws for no other reason); the loader was
\* called for the absent new keys up to that one and for none after it; the
\* list is the old list, nothing removed, followed by what the loader
\* returned for the keys before the throwing one.
C15_LoaderThrows ==
    /\ (FirstCallDone /\ fillCall.threw) => ThrowingCalls # {}
    /\ C15_Case =>
          /\ fillCall.threw
          /\ fillCall.calls = SubSeq(AbsentNewKeys, 1, FirstThrow)
          /\ currentKeys(fillCall.loaded) = SubSeq(AbsentNewKeys, 1, FirstThrow - 1)
          /\ objectList = fillCall.before \o fillCall.loaded

\* the list holds 1, the new keys are 2,3 and the loader throws at 3: the
\* object loaded for 2 stays and the stale 1 is not removed
C15_Witness ==
    /\ C15_Case
    /\ fillCall.clean = "true"
    /\ currentKeys(fillCall.before) = <<1>>
    /\ fillCall.newKeyList = <<2, 3>>
    /\ fillCall.loader = [kind |-> "throws", at |-> 3]
    /\ fillCall.calls = <<2, 3>>
    /\ currentKeys(objectList) = <<1, 2>>

\* a is b with some elements left out
RECURSIVE IsSubSeq(_, _)
IsSubSeq(a, b) ==
    IF a = <<>> THEN TRUE
    ELSE IF b = <<>> THEN FALSE
    ELSE IF Head(a) = Head(b) THEN IsSubSeq(Tail(a), Tail(b))
    ELSE IsSubSeq(a, Tail(b))

IsOld(object) == object \in Range(fillCall.before)

\* the objects of the list that were in it before the call, in list order
Retained == SelectSeq(objectList, IsOld)

\* C16: whatever the arguments, the objects of the old list that are still
\* in the list are in their old relative order and at the front of the list;
\* every other object of the list is one the loader returned in this call.
C16_NoReorder ==
    FirstCallDone =>
        /\ IsSubSeq(Retained, fillCall.before)
        /\ SubSeq(objectList, 1, Len(Retained)) = Retained
        /\ \A i \in (Len(Retained) + 1)..Len(objectList) :
              objectList[i] \in Range(fillCall.loaded)
        /\ IsSubSeq(SubSeq(objectList, Len(Retained) + 1, Len(objectList)),
                    fillCall.loaded)

\* the list holds 1,2 and the new keys are 3,2: 1 goes, 2 moves to the
\* front as the same object, the loaded 3 comes after it
C16_Witness ==
    /\ FirstCallDone
    /\ fillCall.clean = "true"
    /\ currentKeys(fillCall.before) = <<1, 2>>
    /\ fillCall.newKeyList = <<3, 2>>
    /\ Len(fillCall.loaded) = 1
    /\ objectList = <<fillCall.before[2], fillCall.loaded[1]>>

\* the calls (positions in fillCall.calls) for which the loader returned an object
ReturningCalls ==
    {i \in 1..Len(fillCall.calls) :
        LoaderOutcome(fillCall.loader, fillCall.calls[i]) \in {"keyed", "stray"}}

\* C17: the loader is called for the new keys that were not in the list when
\* crossFiller started, in new-key order (all of them unless it throws), and
\* never for a key that was in the list; exactly the calls that return an
\* object append one, so a key for which the loader returned undefined is
\* still not in the list afterwards.
C17_LoaderCalls ==
    FirstCallDone =>
        /\ \A i \in 1..Len(fillCall.calls) : fillCall.calls[i] \notin BeforeKeys
        /\ Len(fillCall.calls) <= Len(AbsentNewKeys)
        /\ fillCall.calls = SubSeq(AbsentNewKeys, 1, Len(fillCall.calls))
        /\ ~fillCall.threw => fillCall.calls = AbsentNewKeys
        /\ Len(fillCall.loaded) = Cardinality(ReturningCalls)
        /\ \A k \in Range(fillCall.calls) :
              LoaderOutcome(fillCall.loader, k) = "undefined"
                  => k \notin Range(currentKeys(objectList))

\* the list holds 1, the new keys are 1,2 and the loader returns undefined
\* for 2: it is called for 2 only and the list stays as it was
C17_Witness ==
    /\ FirstCallDone
    /\ currentKeys(fillCall.before) = <<1>>
    /\ fillCall.newKeyList = <<1, 2>>
    /\ fillCall.loader = [kind |-> "undefined", at |-> 2]
    /\ fillCall.calls = <<2>>
    /\ objectList = fillCall.before

\* C19: with distinct keys in the list and a loader that returns an object
\* with the key asked for, the keys of the list are distinct after the call
\* whatever the new key list is (one that repeats a key too), and the loader
\* is called at most once for a key.
C19_KeysStayUnique ==
    (FirstCallDone /\ Distinct(currentKeys(fillCall.before)) /\ LoaderIsKeyed) =>
        /\ Distinct(currentKeys(objectList))
        /\ Distinct(fillCall.calls)

\* the loader returned, for every key it was called with in the first call,
\* an object with that key, and the same call has been made once more
C20_Case ==
    /\ fillCall.again
    /\ \A k \in Range(fillCall.calls) : LoaderOutcome(fillCall.loader, k) = "keyed"

\* C20: after a call in which the loader returned an object with the key
\* asked for every time, the same call made again at once does not call the
\* loader and leaves the list as the first call left it.
C20_Idempotent ==
    C20_Case =>
        /\ fillCall.againCalls = <<>>
        /\ objectList = fillCall.afterFirst

\* the list holds two objects with key 1, the new key is 2, with pruning:
\* the first call loads 2 and removes both, the second changes nothing
C20_Witness ==
    /\ C20_Case
    /\ fillCall.clean = "true"
    /\ currentKeys(fillCall.before) = <<1, 1>>
    /\ fillCall.newKeyList = <<2>>
    /\ fillCall.calls = <<2>>
    /\ currentKeys(fillCall.afterFirst) = <<2>>
    /\ objectList = fillCall.afterFirst

----------------------------------------------------------------------------
(* merge(originalObject, newObject, targetObject, keys)                    *)
(*                                                                         *)
(* An object is a function from the names of its own properties to their   *)
(* values: object.hasOwnProperty(key) is key \in DOMAIN object.            *)

hasOwnProperty(object, key) == key \in DOMAIN object

\* object[key] = val
SetProperty(object, key, val) ==
    [f \in DOMAIN object \cup {key} |-> IF f = key THEN val ELSE object[f]]

\* delete object[key]
DeleteProperty(object, key) == [f \in DOMAIN object \ {key} |-> object[f]]

\* faulty variant: a property that newObject lacks is left in the target
mergeKey_NoDelete(originalObject, newObject, target, key) ==
    IF hasOwnProperty(originalObject, key) /\ hasOwnProperty(target, key)
    THEN IF StrictEq(originalObject[key], target[key]) /\ hasOwnProperty(newObject, key)
         THEN SetProperty(target, key, newObject[key])
         ELSE target
    ELSE IF ~hasOwnProperty(originalObject, key) /\ ~hasOwnProperty(target, key)
              /\ hasOwnProperty(newObject, key)
         THEN SetProperty(target, key, newObject[key])
         ELSE target

\* faulty variant: the target is not compared with the original
mergeKey_NoCompare(originalObject, newObject, target, key) ==
    IF hasOwnProperty(newObject, key)
    THEN SetProperty(target, key, newObject[key])
    ELSE target

\* faulty variant: a property new to both original and target is not taken over
mergeKey_NoNewField(originalObject, newObject, target, key) ==
    IF hasOwnProperty(originalObject, key) /\ hasOwnProperty(target, key)
    THEN IF StrictEq(originalObject[key], target[key])
         THEN IF hasOwnProperty(newObject, key)
              THEN SetProperty(target, key, newObject[key])
              ELSE DeleteProperty(target, key)
         ELSE target
    ELSE target

\* lines 609-621: the body of the $.each callback, for one key
mergeKey(originalObject, newObject, target, key) ==
    IF hasOwnProperty(originalObject, key) /\ hasOwnProperty(target, key)
    THEN IF StrictEq(originalObject[key], target[key])
         THEN IF hasOwnProperty(newObject, key)
              THEN SetProperty(target, key, newObject[key])
              ELSE DeleteProperty(target, key)
         ELSE target
    ELSE IF ~hasOwnProperty(originalObject, key) /\ ~hasOwnProperty(target, key)
         THEN IF hasOwnProperty(newObject, key)
              THEN SetProperty(target, key, newObject[key])
              ELSE target
         ELSE target

\* The three arguments are references: the caller may pass the same object
\* twice.  heap maps a reference to the object it points to, and the callback
\* reads and writes through the references.
MergeRefs == {"original", "new", "target"}

\* faulty variant: what is done to the target is done to the original too
RECURSIVE merge_SyncsOriginal(_, _, _, _, _)
merge_SyncsOriginal(heap, originalObject, newObject, target, keys) ==
    IF keys = <<>> THEN heap
    ELSE merge_SyncsOriginal(
             [r \in MergeRefs |->
                 IF r \in {target, originalObject}
                 THEN mergeKey(heap[originalObject], heap[newObject], heap[r],
                               Head(keys))
                 ELSE heap[r]],
             originalObject, newObject, target, Tail(keys))

\* $.each(keys, ...): the callback on every key, in order, each on the
\* objects as the callbacks before it left them; the only object written is
\* the one target points to.  The result is the heap after the last key.
RECURSIVE merge(_, _, _, _, _)
merge(heap, originalObject, newObject, target, keys) ==
    IF keys = <<>> THEN heap
    ELSE merge([heap EXCEPT ![target] =
                   mergeKey(heap[originalObject], heap[newObject], heap[target],
                            Head(keys))],
               originalObject, newObject, target, Tail(keys))

MergeValues == {Num(n) : n \in MergeNumbers} \cup {NaN}

MergeObjects == UNION {[D -> MergeValues] : D \in SUBSET Fields}

FieldLists == UNION {[1..n -> Fields] : n \in 0..MaxFieldNames}

\* which of the three arguments are one and the same object
MergeAliasings ==
    {[originalObject |-> o, newObject |-> n] :
        o \in {"original", "target"}, n \in MergeRefs}

\* the record of the call: the objects passed as they were at the call,
\* which of them were the same object, and the original and the new object
\* as they are after it
NoMerge == [called |-> FALSE, originalObject |-> <<>>, newObject |-> <<>>,
            keys |-> <<>>, before |-> <<>>,
            refs |-> [originalObject |-> "original", newObject |-> "new"],
            originalAfter |-> <<>>, newAfter |-> <<>>]

Merge ==
    /\ ~mergeCall.called
    /\ \E originalObject \in MergeObjects, newObject \in MergeObjects,
          keys \in FieldLists, refs \in MergeAliasings :
          LET heap == [r \in MergeRefs |->
                          CASE r = "original" -> originalObject
                            [] r = "new" -> newObject
                            [] OTHER -> targetObject]
              after == merge(heap, refs.originalObject, refs.newObject,
                             "target", keys)
          IN  \* an argument that is another argument is that object
              /\ heap[refs.originalObject] = originalObject
              /\ heap[refs.newObject] = newObject
              /\ targetObject' = after["target"]
              /\ mergeCall' = [called |-> TRUE, originalObject |-> originalObject,
                               newObject |-> newObject, keys |-> keys,
                               before |-> targetObject, refs |-> refs,
                               originalAfter |-> after[refs.originalObject],
                               newAfter |-> after[refs.newObject]]
    /\ UNCHANGED <<searchVars, fillVars, equalsVars, partitionVars, diskVars>>

----------------------------------------------------------------------------
(* Properties of merge                                                     *)

\* the target, before the call, held for field f what the original holds
Unmodified(f) ==
    /\ hasOwnProperty(mergeCall.originalObject, f)
    /\ hasOwnProperty(mergeCall.before, f)
    /\ StrictEq(mergeCall.originalObject[f], mergeCall.before[f])

\* the target, before the call, had diverged from the original on field f
Diverged(f) ==
    \/ /\ hasOwnProperty(mergeCall.originalObject, f)
       /\ hasOwnProperty(mergeCall.before, f)
       /\ ~StrictEq(mergeCall.originalObject[f], mergeCall.before[f])
    \/ hasOwnProperty(mergeCall.originalObject, f) # hasOwnProperty(mergeCall.before, f)

\* neither the original nor the target, before the call, has field f
NewField(f) ==
    /\ ~hasOwnProperty(mergeCall.originalObject, f)
    /\ ~hasOwnProperty(mergeCall.before, f)

\* the target now holds for f what newObject holds, or lacks f as newObject does
TakenFromNew(f) ==
    IF hasOwnProperty(mergeCall.newObject, f)
    THEN hasOwnProperty(targetObject, f) /\ targetObject[f] = mergeCall.newObject[f]
    ELSE ~hasOwnProperty(targetObject, f)

\* C7: a named field that original and target both define with equal values
\* is, after merge, what the new object holds: its value there, or absent
\* when the new object does not define it.
C7_UnmodifiedTakesNew ==
    mergeCall.called =>
        \A f \in Range(mergeCall.keys) : Unmodified(f) => TakenFromNew(f)

\* original = {x:1}, target = {x:1}, new = {x:2}: the target becomes {x:2};
\* and a field that the new object lacks is deleted
C7_Witness ==
    /\ mergeCall.called
    /\ mergeCall.keys = <<"x", "y">>
    /\ mergeCall.originalObject = [f \in {"x", "y"} |-> Num(1)]
    /\ mergeCall.before = [f \in {"x", "y"} |-> Num(1)]
    /\ mergeCall.newObject = [f \in {"x"} |-> Num(2)]
    /\ targetObject = [f \in {"x"} |-> Num(2)]

\* C8: a named field on which the target has diverged from the original
\* (both define it with different values, or only one of them defines it)
\* is left as it was: same presence, same value.
C8_LocalEditsWin ==
    mergeCall.called =>
        \A f \in Range(mergeCall.keys) :
            Diverged(f) =>
                /\ hasOwnProperty(targetObject, f) = hasOwnProperty(mergeCall.before, f)
                /\ hasOwnProperty(targetObject, f) => targetObject[f] = mergeCall.before[f]

\* original = {x:1}, target = {x:2} (edited), new = {x:1, y:1}: x stays 2
C8_Witness ==
    /\ mergeCall.called
    /\ mergeCall.keys = <<"x", "y">>
    /\ mergeCall.originalObject = [f \in {"x", "y"} |-> Num(1)]
    /\ mergeCall.before = [f \in {"x"} |-> Num(2)]
    /\ mergeCall.newObject = [f \in {"y"} |-> Num(2)]
    /\ targetObject = [f \in {"x"} |-> Num(2)]

\* C9: a named field that neither original nor target defines is, after
\* merge, what the new object holds: its value there, or still absent.
C9_NewFieldTaken ==
    mergeCall.called =>
        \A f \in Range(mergeCall.keys) : NewField(f) => TakenFromNew(f)

C9_Witness ==
    /\ mergeCall.called
    /\ mergeCall.keys = <<"y", "x">>
    /\ mergeCall.originalObject = <<>>
    /\ mergeCall.before = <<>>
    /\ mergeCall.newObject = [f \in {"y"} |-> Num(2)]
    /\ targetObject = [f \in {"y"} |-> Num(2)]


\* a field of the target that keys does not name is as it was: present or
\* not as before, and with the value it had
UnnamedFieldsKept ==
    \A f \in Fields \ Range(mergeCall.keys) :
        /\ hasOwnProperty(targetObject, f) <=> hasOwnProperty(mergeCall.before, f)
        /\ hasOwnProperty(targetObject, f) => targetObject[f] = mergeCall.before[f]

\* C18 as stated: whatever is passed, the original and the new object are
\* after merge as they were before it, and so is every field of the target
\* that keys does not name.
C18_MergeFrame ==
    mergeCall.called =>
        /\ mergeCall.originalAfter = mergeCall.originalObject
        /\ mergeCall.newAfter = mergeCall.newObject
        /\ UnnamedFieldsKept

\* C18, amended: the original is as it was when it is not the object passed
\* as target (passed as target too, it is the object merge writes to); the
\* new object is as it was whatever is passed, and so is every field of the
\* target that keys does not name.
C18_MergeFrameUnlessSameObject ==
    mergeCall.called =>
        /\ mergeCall.refs.originalObject # "target"
              => mergeCall.originalAfter = mergeCall.originalObject
        /\ mergeCall.newAfter = mergeCall.newObject
        /\ UnnamedFieldsKept

\* three objects, original {x:1, y:1}, new {x:2, y:2}, target {x:1, y:1},
\* keys [x]: the target becomes {x:2, y:1}, the others stay
C18_Witness ==
    /\ mergeCall.called
    /\ mergeCall.refs = [originalObject |-> "original", newObject |-> "new"]
    /\ mergeCall.keys = <<"x">>
    /\ mergeCall.originalObject = [f \in Fields |-> Num(1)]
    /\ mergeCall.newObject = [f \in Fields |-> Num(2)]
    /\ mergeCall.before = [f \in Fields |-> Num(1)]
    /\ targetObject = [f \in Fields |-> IF f = "x" THEN Num(2) ELSE Num(1)]
    /\ mergeCall.originalAfter = mergeCall.originalObject
----------------------------------------------------------------------------
(* arrayEquals(array1, array2) and Array.prototype.equals(other)           *)

\* !v : undefined, null, NaN and 0 are falsy, an array or an object never is
Falsy(v) == v.t \in {"undefined", "null", "NaN"} \/ (v.t = "number" /\ v.v = 0)

isArray(v) == v.t = "array"

\* v.length, for a v that is not undefined or null: the number of entries
\* of an array; a number or an object of the model has no length
length(v) == IF isArray(v) THEN Num(Len(v.items)) ELSE Undefined

\* reading array1.length at line 629 is a TypeError when array1 is undefined
\* or null; the line is reached when array2 is not falsy
arrayEqualsThrows(a1, a2) == ~Falsy(a2) /\ a1.t \in {"undefined", "null"}

RECURSIVE arrayEquals(_, _)
RECURSIVE arrayEqualsFrom(_, _, _)

\* lines 633-642: the loop from position i (1-based) on; i < array1.length
\* is false when array1 has no length
arrayEqualsFrom(a1, a2, i) ==
    IF ~Lt(Num(i - 1), length(a1)) THEN TRUE
    ELSE IF isArray(a1.items[i]) /\ isArray(a2.items[i])
         THEN IF ~arrayEquals(a1.items[i], a2.items[i]) THEN FALSE
              ELSE arrayEqualsFrom(a1, a2, i + 1)
    ELSE IF ~StrictEq(a1.items[i], a2.items[i]) THEN FALSE
    ELSE arrayEqualsFrom(a1, a2, i + 1)

\* the value returned, when arrayEqualsThrows(a1, a2) is false
arrayEquals(a1, a2) ==
    IF Falsy(a2) THEN FALSE
    ELSE IF ~StrictEq(length(a1), length(a2)) THEN FALSE
    ELSE arrayEqualsFrom(a1, a2, 1)

\* v instanceof Object
instanceofObject(v) == v.t \in {"object", "array"}

\* v.constructor, for an array or a plain object
constructor(v) == IF isArray(v) THEN "Array" ELSE "Object"

\* typeof(v)
typeof(v) ==
    CASE v.t \in {"object", "array", "null"} -> "object"
      [] v.t \in {"number", "NaN"} -> "number"
      [] OTHER -> "undefined"

\* lines 761-804.  The own properties of an array are its indices.  The two
\* loops return false at the first property that fails, so the result is
\* true when no property fails.
RECURSIVE objectEquals(_, _)
objectEquals(object1, object2) ==
    IF StrictEq(object1, object2) THEN TRUE
    ELSE IF ~instanceofObject(object1) \/ ~instanceofObject(object2) THEN FALSE
    ELSE IF constructor(object1) # constructor(object2) THEN FALSE
    ELSE /\ \A p \in DOMAIN object1.items :
              /\ p \in DOMAIN object2.items
              /\ \/ StrictEq(object1.items[p], object2.items[p])
                 \/ /\ typeof(object1.items[p]) = "object"
                    /\ objectEquals(object1.items[p], object2.items[p])
         /\ \A p \in DOMAIN object2.items : p \in DOMAIN object1.items

\* lines 160-169: the loop of Array.prototype.equals from position i on
RECURSIVE equalsFrom(_, _, _)
equalsFrom(this, other, i) ==
    IF i > Len(this.items) THEN TRUE
    ELSE IF isArray(this.items[i]) /\ isArray(other.items[i])
         THEN IF ~arrayEquals(this.items[i], other.items[i]) THEN FALSE
              ELSE equalsFrom(this, other, i + 1)
    ELSE IF ~StrictEq(this.items[i], other.items[i]) THEN FALSE
    ELSE equalsFrom(this, other, i + 1)

equals(this, other) ==
    IF Falsy(other) THEN FALSE
    ELSE IF Len(this.items) # Len(other.items) THEN FALSE
    ELSE equalsFrom(this, other, 1)

\* the entries of the arrays compared: numbers, NaN, and arrays of at most
\* one such entry
EqualsAtoms == {Num(0), Num(1), NaN}

InnerArrays == {Arr(<<>>)} \cup {Arr(<<a>>) : a \in EqualsAtoms}

EqualsArrays ==
    {Arr(s) : s \in UNION {[1..n -> EqualsAtoms \cup InnerArrays] : n \in 0..MaxArrLen}}

\* the values structural equality is called on: undefined, null, numbers,
\* NaN, arrays, and plain objects.  NestedObjects are the objects a property
\* may hold, each with its own identity; 4 and 5 are two objects alike.
EqualsPrimitives == {Undefined, Null, Num(0), Num(1), NaN}

NestedObjects ==
    {Obj(3, <<>>), Obj(4, [f \in {"x"} |-> Num(1)]),
     Obj(5, [f \in {"x"} |-> Num(1)]), Obj(6, [f \in {"x"} |-> Num(0)])}

\* the objects passed as an argument, with identity id
EqualsObjects(id) ==
    {Obj(id, f) : f \in UNION {[D -> EqualsPrimitives \cup NestedObjects] :
                                  D \in SUBSET Fields}}

EqualsValues(id) == EqualsPrimitives \cup InnerArrays \cup EqualsObjects(id)

NoEquals == [fn |-> "none", result |-> FALSE, threw |-> FALSE]

ArrayEquals ==
    /\ equalsCall.fn = "none"
    /\ equalsCall' =
          IF arrayEqualsThrows(array1, array2)
          THEN [fn |-> "arrayEquals", result |-> FALSE, threw |-> TRUE]
          ELSE [fn |-> "arrayEquals", result |-> arrayEquals(array1, array2),
                threw |-> FALSE]
    /\ UNCHANGED <<array1, array2, searchVars, fillVars, mergeVars, partitionVars, diskVars>>

ArrayProtoEquals ==
    /\ equalsCall.fn = "none"
    /\ equalsCall' = [fn |-> "equals", result |-> equals(array1, array2),
                      threw |-> FALSE]
    /\ UNCHANGED <<array1, array2, searchVars, fillVars, mergeVars, partitionVars, diskVars>>

\* objectEquals(array1, array2): the two variables hold the two arguments
ObjectEquals ==
    /\ equalsCall.fn = "none"
    /\ equalsCall' = [fn |-> "objectEquals",
                      result |-> objectEquals(array1, array2), threw |-> FALSE]
    /\ UNCHANGED <<array1, array2, searchVars, fillVars, mergeVars, partitionVars, diskVars>>

----------------------------------------------------------------------------
(* Properties of arrayEquals                                               *)

\* the equality the claim describes: same length, and at every position
\* two arrays that are equal in this sense, or two entries that are
\* directly equal (===)
RECURSIVE SameSequence(_, _)
SameSequence(a, b) ==
    /\ Len(a.items) = Len(b.items)
    /\ \A i \in 1..Len(a.items) :
          \/ isArray(a.items[i]) /\ isArray(b.items[i])
                /\ SameSequence(a.items[i], b.items[i])
          \/ StrictEq(a.items[i], b.items[i])

\* C10: sequenceEquals(A, B) is true exactly when A and B have the same
\* length and every position holds two equal arrays or two directly equal
\* entries; it is false when the lengths differ, and sequenceEquals(A, A)
\* is true for any A.
C10_SequenceEquals ==
    equalsCall.fn # "none" =>
        /\ equalsCall.result = SameSequence(array1, array2)
        /\ Len(array1.items) # Len(array2.items) => ~equalsCall.result
        /\ array1 = array2 => equalsCall.result


----------------------------------------------------------------------------
(* Properties of objectEquals, and of both on arbitrary values              *)

\* the equality the claim describes: two objects with the same own property
\* names whose values are equal in this sense; two values that are not both
\* objects are equal when they are the same value
RECURSIVE SameRecord(_, _)
SameRecord(a, b) ==
    IF a.t = "object" /\ b.t = "object"
    THEN /\ DOMAIN a.items = DOMAIN b.items
         /\ \A p \in DOMAIN a.items : SameRecord(a.items[p], b.items[p])
    ELSE a = b

BothObjects ==
    equalsCall.fn = "objectEquals" /\ array1.t = "object" /\ array2.t = "object"

\* C11: objectEquals on two plain objects is true exactly when they have the
\* same own property names and every property holds equal values (values
\* that are not objects by value, objects in the same way); a property that
\* only one of them has, whichever, makes it false.
C11_RecordEquals ==
    BothObjects =>
        /\ equalsCall.result = SameRecord(array1, array2)
        /\ DOMAIN array1.items # DOMAIN array2.items => ~equalsCall.result

\* undefined and null, number, array, object
Shape(v) ==
    CASE v.t \in {"number", "NaN"} -> "number"
      [] OTHER -> v.t

\* C14: arrayEquals and objectEquals, on any two values, do not throw, and
\* return false when the two values are of different shapes.
C14_NeverRaises ==
    equalsCall.fn \in {"arrayEquals", "objectEquals"} =>
        /\ ~equalsCall.threw
        /\ Shape(array1) # Shape(array2) => ~equalsCall.result
----------------------------------------------------------------------------
(* disk.js: fullPartitions                                                 *)
(*                                                                         *)
(* A partition is [guid, offset, size]; an entry of data is a partition    *)
(* with its relativeSize and small, and a RAW entry made for a gap has      *)
(* guid 0.                                                                 *)

\* the size of a disk whose data has not been loaded (the model does not
\* evaluate fullPartitions on it)
NoSize == 0

minSize == 3

\* new Partition(); state('RAW'); offset(o); size(sz)
RawPartition(o, sz) == [guid |-> 0, offset |-> o, size |-> sz]

\* lines 55-73: the callback of $.each over the partitions, from position i
\* (1-based) on; data is what has been pushed so far
RECURSIVE gapsBetween(_, _, _)
gapsBetween(parts, i, data) ==
    IF i > Len(parts) THEN data
    ELSE
      LET partition == parts[i]
          gap == IF i = 1
                 THEN IF partition.offset # 0
                      THEN <<RawPartition(0, partition.offset)>>
                      ELSE <<>>
                 ELSE LET previousPartition == parts[i - 1]
                      IN  IF previousPartition.offset + previousPartition.size
                                 < partition.offset
                          THEN <<RawPartition(
                                   previousPartition.offset + previousPartition.size,
                                   partition.offset - previousPartition.offset
                                       - previousPartition.size)>>
                          ELSE <<>>
      IN  gapsBetween(parts, i + 1, data \o gap \o <<partition>>)

\* lines 54-88: the partitions with a RAW entry for every gap
partitionsAndGaps(parts, diskSize) ==
    IF Len(parts) > 0
    THEN LET data == gapsBetween(parts, 1, <<>>)
             partition == parts[Len(parts)]
         IN  IF partition.offset + partition.size < diskSize
             THEN Append(data, RawPartition(partition.offset + partition.size,
                             diskSize - partition.offset - partition.size))
             ELSE data
    ELSE <<RawPartition(0, diskSize)>>

\* Math.round(sz / diskSize * 100), for a positive diskSize: the nearest
\* integer, a half rounded up
relativeSize(sz, diskSize) == (200 * sz + diskSize) \div (2 * diskSize)

\* lines 89-92
withRelativeSize(data, diskSize) ==
    [i \in 1..Len(data) |->
        [guid |-> data[i].guid, offset |-> data[i].offset, size |-> data[i].size,
         relativeSize |-> relativeSize(data[i].size, diskSize), small |-> FALSE]]

\* n partitions, the first of size firstSize at firstOffset, the others of
\* size psize, each gap after the one before
PartitionList(firstOffset, firstSize, n, gap, psize) ==
    [i \in 1..n |->
        IF i = 1 THEN [guid |-> 1, offset |-> firstOffset, size |-> firstSize]
        ELSE [guid |-> i,
              offset |-> firstOffset + firstSize + (i - 2) * (gap + psize) + gap,
              size |-> psize]]

\* the partition lists that fit on a disk of size diskSize
PartitionLists(diskSize) ==
    {parts \in {PartitionList(o, fs, n, g, ps) :
                   o \in PartitionGaps, fs \in FirstPartitionSizes,
                   n \in 0..MaxPartitions, g \in PartitionGaps,
                   ps \in PartitionSizes} :
        parts = <<>>
            \/ parts[Len(parts)].offset + parts[Len(parts)].size <= diskSize}

\* where the evaluation of fullPartitions is: pc is "idle" (not started),
\* "each" (in the $.each of line 94, at index), "while" (in the loop of line
\* 97) or "done"; steps counts the passes through the body of the while
\* loop for the current index
NoRun == [pc |-> "idle", data |-> <<>>, index |-> 0, runningIndex |-> 0, steps |-> 0]

\* data[i] in the code is data[i + 1] here
RelativeSizeAt(data, i) == data[i + 1].relativeSize

\* lines 52-93: data is built; the $.each of line 94 is entered when data
\* has more than one entry
FullPartitions ==
    /\ fullPartitionsRun.pc = "idle"
    /\ LET data == withRelativeSize(partitionsAndGaps(partitions, size), size)
       IN  fullPartitionsRun' =
               [NoRun EXCEPT !.data = data,
                             !.pc = IF Len(data) > 1 THEN "each" ELSE "done"]
    /\ UNCHANGED <<partitions, size, searchVars, fillVars, mergeVars, equalsVars, diskVars>>

\* lines 94-96: the callback of $.each for index, up to the while loop; after
\* the last entry data is returned
EachEntry ==
    /\ fullPartitionsRun.pc = "each"
    /\ LET run == fullPartitionsRun
       IN  fullPartitionsRun' =
               IF run.index = Len(run.data) THEN [run EXCEPT !.pc = "done"]
               ELSE IF RelativeSizeAt(run.data, run.index) < minSize
                    THEN [run EXCEPT !.pc = "while",
                                     !.runningIndex = run.index + 1,
                                     !.steps = 0]
                    ELSE [run EXCEPT !.index = @ + 1]
    /\ UNCHANGED <<partitions, size, searchVars, fillVars, mergeVars, equalsVars, diskVars>>

\* lines 98-106: the body of the while loop, once
whileBody(run) ==
    LET wrapped == IF run.runningIndex = Len(run.data) THEN 0 ELSE run.runningIndex
        gives == wrapped # run.index
                     /\ RelativeSizeAt(run.data, wrapped) >= minSize * 2
    IN  [run EXCEPT
           !.data = IF gives
                    THEN [@ EXCEPT ![run.index + 1].relativeSize = minSize,
                                   ![run.index + 1].small = TRUE,
                                   ![wrapped + 1].relativeSize = @ - minSize]
                    ELSE @,
           !.runningIndex = wrapped + 1,
           !.steps = @ + 1]

\* line 97: the test of the while loop, and its body when the test holds;
\* the callback of $.each ends when it does not.  The count of the passes
\* stops one above the number of entries.
WhileStep ==
    /\ fullPartitionsRun.pc = "while"
    /\ fullPartitionsRun.steps <= Len(fullPartitionsRun.data)
    /\ LET run == fullPartitionsRun
       IN  fullPartitionsRun' =
               IF run.runningIndex # run.index
                      /\ RelativeSizeAt(run.data, run.index) < minSize
               THEN whileBody(run)
               ELSE [run EXCEPT !.pc = "each", !.index = @ + 1]
    /\ UNCHANGED <<partitions, size, searchVars, fillVars, mergeVars, equalsVars, diskVars>>

----------------------------------------------------------------------------
(* Properties of fullPartitions                                            *)

\* no other entry of data can give: none has a relativeSize of 6 or more
NoDonor ==
    \A i \in 0..(Len(fullPartitionsRun.data) - 1) :
        i # fullPartitionsRun.index
            => RelativeSizeAt(fullPartitionsRun.data, i) < minSize * 2

\* C21: the loop that looks, for an entry with a relativeSize below 3, for
\* an entry with a relativeSize of 6 or more stops after at most one pass
\* around data, whatever the partitions and the size of the disk: its body
\* is never entered more often than data has entries.
C21_LoopStops ==
    fullPartitionsRun.pc = "while"
        => fullPartitionsRun.steps <= Len(fullPartitionsRun.data)

----------------------------------------------------------------------------
(* disk.js: load, fillData, getPartitions                                  *)
(*                                                                         *)
(* disk.requests is the list of the requests made with api.get, each       *)
(* [kind, state]; a handle is the position of a request in it, 0 when      *)
(* undefined.  disk.promises is the list of the deferreds of the calls of   *)
(* load() and getPartitions(), each with what was the case when the call   *)
(* was made.                                                               *)

NoHandle == 0

\* the disk right after its construction (lines 24-45)
NoDisk == [loadHandle |-> NoHandle, loadPartitions |-> NoHandle,
           loading |-> FALSE, loaded |-> FALSE, partitionsLoaded |-> FALSE,
           requests |-> <<>>, promises |-> <<>>, guids |-> <<>>]

\* faulty variant: a handle is always taken as completed
xhrCompleted_Always(requests, token) == TRUE

\* generic.js lines 472-474: token.state() is the state of the request
xhrCompleted(requests, token) ==
    ~(token # NoHandle /\ requests[token].state = "pending")

\* generic.js lines 419-427, without formatFunction: the new value of the
\* observable
trySet(observable, object, key) ==
    IF hasOwnProperty(object, key) THEN object[key] ELSE observable

\* lines 125-126 of fillData: the flags
fillData(d) == [d EXCEPT !.loaded = TRUE, !.loading = FALSE]

\* faulty variant: the flag is left as it is when the request has completed
always_KeepsLoading(d) ==
    d

\* lines 139-141: the always callback of the load request
always(d) ==
    [d EXCEPT !.loading = FALSE]

\* what api.get('disks/' + guid) may answer: with or without the size
LoadData == {<<>>, [k \in {"size"} |-> 100]}

CallsMade == Len(disk.promises)

\* the request token stands for is still pending
HandlePending(token) == token # NoHandle /\ disk.requests[token].state = "pending"

\* load(), lines 129-146
Load ==
    /\ CallsMade < MaxCalls
    /\ LET completed == xhrCompleted(disk.requests, disk.loadHandle)
           issued == Len(disk.requests) + 1
           promise == [kind |-> "load",
                       whilePending |-> HandlePending(disk.loadHandle),
                       handleBefore |-> disk.loadHandle,
                       handleAfter |-> IF completed THEN issued ELSE disk.loadHandle,
                       request |-> IF completed THEN issued ELSE NoHandle,
                       state |-> IF completed THEN "pending" ELSE "rejected",
                       filled |-> FALSE]
       IN  disk' =
             IF completed
             THEN [disk EXCEPT
                     !.loading = TRUE,
                     !.requests = Append(@, [kind |-> "load", state |-> "pending"]),
                     !.loadHandle = issued,
                     !.promises = Append(@, promise)]
             ELSE [disk EXCEPT !.loading = TRUE, !.promises = Append(@, promise)]
    /\ UNCHANGED <<partitions, size, fullPartitionsRun,
                   searchVars, fillVars, mergeVars, equalsVars>>

\* the promises with request rq settled as state; filled is the loaded flag
\* of the disk at that moment
settle(promises, rq, state, filled) ==
    [i \in 1..Len(promises) |->
        IF promises[i].request = rq
        THEN [promises[i] EXCEPT !.state = state, !.filled = filled]
        ELSE promises[i]]

PendingRequests(kind) ==
    {rq \in 1..Len(disk.requests) :
        disk.requests[rq].kind = kind /\ disk.requests[rq].state = "pending"}

\* a load request succeeds with data: lines 134-137, then 139-141
LoadDone ==
    \E rq \in PendingRequests("load"), data \in LoadData :
        /\ size' = trySet(size, data, "size")
        /\ disk' = always([fillData(disk) EXCEPT
                             !.requests[rq].state = "resolved",
                             !.promises = settle(@, rq, "resolved",
                                                 fillData(disk).loaded)])
        /\ UNCHANGED <<partitions, fullPartitionsRun,
                       searchVars, fillVars, mergeVars, equalsVars>>

\* a load request fails: line 138, then 139-141
LoadFail ==
    \E rq \in PendingRequests("load") :
        /\ disk' = always([disk EXCEPT
                             !.requests[rq].state = "rejected",
                             !.promises = settle(@, rq, "rejected", disk.loaded)])
        /\ UNCHANGED <<partitions, size, fullPartitionsRun,
                       searchVars, fillVars, mergeVars, equalsVars>>

\* fillData(data) called from outside (by the list that loaded the disk),
\* lines 115-128
FillData ==
    /\ \E data \in LoadData : size' = trySet(size, data, "size")
    /\ disk' = fillData(disk)
    /\ UNCHANGED <<partitions, fullPartitionsRun,
                   searchVars, fillVars, mergeVars, equalsVars>>

\* getPartitions(), lines 147-154 and 179-183
GetPartitions ==
    /\ CallsMade < MaxCalls
    /\ LET completed == xhrCompleted(disk.requests, disk.loadPartitions)
           issued == Len(disk.requests) + 1
           promise == [kind |-> "partitions",
                       whilePending |-> HandlePending(disk.loadPartitions),
                       handleBefore |-> disk.loadPartitions,
                       handleAfter |-> IF completed THEN issued
                                       ELSE disk.loadPartitions,
                       request |-> IF completed THEN issued ELSE NoHandle,
                       state |-> IF completed THEN "pending" ELSE "rejected",
                       filled |-> FALSE]
       IN  disk' =
             IF completed
             THEN [disk EXCEPT
                     !.requests = Append(@, [kind |-> "partitions",
                                             state |-> "pending"]),
                     !.loadPartitions = issued,
                     !.promises = Append(@, promise)]
             ELSE [disk EXCEPT !.promises = Append(@, promise)]
    /\ UNCHANGED <<partitions, size, fullPartitionsRun,
                   searchVars, fillVars, mergeVars, equalsVars>>

\* the item the server reports for the partition guid: the partitions lie
\* one after the other in guid order
PartitionItem(guid) == [guid |-> guid, offset |-> 10 * (guid - 1), size |-> 10]

\* the items of guidSet sorted by offset (sort: 'offset', line 153)
RECURSIVE SortedItems(_)
SortedItems(guidSet) ==
    IF guidSet = {} THEN <<>>
    ELSE LET first == CHOOSE g \in guidSet :
                          \A h \in guidSet :
                              PartitionItem(g).offset <= PartitionItem(h).offset
         IN  <<PartitionItem(first)>> \o SortedItems(guidSet \ {first})

\* data.data of a response
PartitionResponses == {SortedItems(guidSet) : guidSet \in SUBSET PartitionGuids}

\* lines 156-160
guidsOf(items) == [i \in 1..Len(items) |-> items[i].guid]

\* lines 161-173: crossFiller on the partitions with the guid as key and a
\* loader that makes the partition for a guid, then fillData on every
\* partition the response has an item for
partitionsAfter(parts, items) ==
    LET guids == guidsOf(items)
        list == [i \in 1..Len(parts) |-> [key |-> parts[i].guid, id |-> i]]
        filled == crossFiller(guids, list, [kind |-> "keyed", at |-> 1],
                              "undefined").list
    IN  [i \in 1..Len(filled) |->
            IF \E j \in 1..Len(items) : items[j].guid = filled[i].key
            THEN LET j == CHOOSE j \in 1..Len(items) :
                              /\ items[j].guid = filled[i].key
                              /\ \A h \in (j + 1)..Len(items) :
                                    items[h].guid # filled[i].key
                 IN  items[j]
            ELSE parts[filled[i].id]]

\* a partitions request succeeds with items: lines 155-177
GetPartitionsDone ==
    \E rq \in PendingRequests("partitions"), items \in PartitionResponses :
        /\ partitions' = partitionsAfter(partitions, items)
        /\ disk' = [disk EXCEPT
                      !.partitionsLoaded = TRUE,
                      !.guids = guidsOf(items),
                      !.requests[rq].state = "resolved",
                      !.promises = settle(@, rq, "resolved", FALSE)]
        /\ UNCHANGED <<size, fullPartitionsRun,
                       searchVars, fillVars, mergeVars, equalsVars>>

\* a partitions request fails: line 178
GetPartitionsFail ==
    \E rq \in PendingRequests("partitions") :
        /\ disk' = [disk EXCEPT
                      !.requests[rq].state = "rejected",
                      !.promises = settle(@, rq, "rejected", FALSE)]
        /\ UNCHANGED <<partitions, size, fullPartitionsRun,
                       searchVars, fillVars, mergeVars, equalsVars>>

----------------------------------------------------------------------------
(* Properties of the disk                                                  *)

Promises(kind) ==
    {i \in 1..Len(disk.promises) : disk.promises[i].kind = kind}

\* C22: at most one load request and at most one partitions request is
\* pending, whatever calls and completions came before; a call of load() or
\* getPartitions() made while the request of its handle was pending made no
\* request, left the handle as it was and returned a rejected promise, and
\* every other call made one request.
C22_OneRequestInFlight ==
    /\ Cardinality(PendingRequests("load")) <= 1
    /\ Cardinality(PendingRequests("partitions")) <= 1
    /\ \A i \in 1..Len(disk.promises) :
          LET promise == disk.promises[i]
          IN  IF promise.whilePending
              THEN /\ promise.request = NoHandle
                   /\ promise.handleAfter = promise.handleBefore
                   /\ promise.state = "rejected"
              ELSE /\ promise.request # NoHandle
                   /\ disk.requests[promise.request].kind = promise.kind
    /\ Len(disk.requests)
          = Cardinality({i \in 1..Len(disk.promises) :
                            ~disk.promises[i].whilePending})

\* a load and a partitions request are pending, and a second load() was
\* made and rejected meanwhile
C22_Witness ==
    /\ Cardinality(PendingRequests("load")) = 1
    /\ Cardinality(PendingRequests("partitions")) = 1
    /\ \E i \in Promises("load") :
          /\ disk.promises[i].whilePending
          /\ disk.promises[i].state = "rejected"
          /\ disk.loadHandle = disk.promises[i].handleBefore

\* C23: while loading is true a load request is pending (so it is false
\* once the request has completed); a promise of load() is pending only
\* while its request is, resolved only when its request succeeded and
\* fillData had set loaded, and rejected only when its request failed or the
\* call was made while a request was pending.
C23_LoadingFollowsRequest ==
    /\ disk.loading => PendingRequests("load") # {}
    /\ \A i \in Promises("load") :
          LET promise == disk.promises[i]
          IN  CASE promise.state = "pending" ->
                     /\ promise.request # NoHandle
                     /\ disk.requests[promise.request].state = "pending"
                [] promise.state = "resolved" ->
                     /\ promise.request # NoHandle
                     /\ disk.requests[promise.request].state = "resolved"
                     /\ promise.filled
                [] OTHER ->
                     \/ promise.whilePending
                     \/ /\ promise.request # NoHandle
                        /\ disk.requests[promise.request].state = "rejected"

\* one load() has failed and one has succeeded, so nothing is pending
\* and loading is false
C23_Witness ==
    /\ ~disk.loading
    /\ PendingRequests("load") = {}
    /\ \E i, j \in Promises("load") :
          /\ disk.promises[i].state = "rejected"
          /\ ~disk.promises[i].whilePending
          /\ disk.promises[j].state = "resolved"
          /\ disk.promises[j].filled

\* C24: after a successful getPartitions() the partitions are, whatever they
\* were before, one partition for every guid of the response, in the order
\* of the response.
C24_PartitionsInResponseOrder ==
    disk.partitionsLoaded => guidsOf(partitions) = disk.guids

----------------------------------------------------------------------------
(* Specifications: one for each group of functions.  Init draws what the   *)
(* functions of the group are called on and leaves the rest idle.          *)

InitSearch ==
    /\ prop \in {NoProp, "guid"}
    /\ arr \in {WrapItems(s, prop) : s \in SearchSeqs}
    /\ value \in {Num(n) : n \in SearchValues}
    /\ searchCall = NoSearch
    /\ objectList = <<>> /\ fillCall = NoFill
    /\ targetObject = <<>> /\ mergeCall = NoMerge
    /\ array1 = Arr(<<>>) /\ array2 = Arr(<<>>) /\ equalsCall = NoEquals
    /\ partitions = <<>> /\ size = NoSize /\ fullPartitionsRun = NoRun
    /\ disk = NoDisk

InitCrossFill ==
    /\ objectList \in ObjectLists
    /\ fillCall = NoFill
    /\ arr = <<>> /\ value = Undefined /\ prop = NoProp /\ searchCall = NoSearch
    /\ targetObject = <<>> /\ mergeCall = NoMerge
    /\ array1 = Arr(<<>>) /\ array2 = Arr(<<>>) /\ equalsCall = NoEquals
    /\ partitions = <<>> /\ size = NoSize /\ fullPartitionsRun = NoRun
    /\ disk = NoDisk

InitMerge ==
    /\ targetObject \in MergeObjects
    /\ mergeCall = NoMerge
    /\ arr = <<>> /\ value = Undefined /\ prop = NoProp /\ searchCall = NoSearch
    /\ objectList = <<>> /\ fillCall = NoFill
    /\ array1 = Arr(<<>>) /\ array2 = Arr(<<>>) /\ equalsCall = NoEquals
    /\ partitions = <<>> /\ size = NoSize /\ fullPartitionsRun = NoRun
    /\ disk = NoDisk

InitEquals ==
    /\ array1 \in EqualsArrays
    /\ array2 \in EqualsArrays
    /\ equalsCall = NoEquals
    /\ arr = <<>> /\ value = Undefined /\ prop = NoProp /\ searchCall = NoSearch
    /\ objectList = <<>> /\ fillCall = NoFill
    /\ targetObject = <<>> /\ mergeCall = NoMerge
    /\ partitions = <<>> /\ size = NoSize /\ fullPartitionsRun = NoRun
    /\ disk = NoDisk

NextSearch == BrSearch \/ BrSearchFirst \/ BrSearchLast

SpecSearch == InitSearch /\ [][NextSearch]_vars

NextCrossFill == CrossFiller \/ CrossFillerAgain

SpecCrossFill == InitCrossFill /\ [][NextCrossFill]_vars

NextMerge == Merge

SpecMerge == InitMerge /\ [][NextMerge]_vars

NextEquals == ArrayEquals \/ ArrayProtoEquals

SpecEquals == InitEquals /\ [][NextEquals]_vars

\* structural equality on arbitrary values: the second argument is another
\* value (an object of its own identity) or the very same value as the first
InitStructuralEquals ==
    /\ array1 \in EqualsValues(1)
    /\ array2 \in EqualsValues(2) \cup {array1}
    /\ equalsCall = NoEquals
    /\ arr = <<>> /\ value = Undefined /\ prop = NoProp /\ searchCall = NoSearch
    /\ objectList = <<>> /\ fillCall = NoFill
    /\ targetObject = <<>> /\ mergeCall = NoMerge
    /\ partitions = <<>> /\ size = NoSize /\ fullPartitionsRun = NoRun
    /\ disk = NoDisk

NextStructuralEquals == ArrayEquals \/ ObjectEquals

SpecStructuralEquals == InitStructuralEquals /\ [][NextStructuralEquals]_vars

\* the evaluation of fullPartitions on a disk with its partitions
InitFullPartitions ==
    /\ size \in DiskSizes
    /\ partitions \in PartitionLists(size)
    /\ fullPartitionsRun = NoRun
    /\ arr = <<>> /\ value = Undefined /\ prop = NoProp /\ searchCall = NoSearch
    /\ objectList = <<>> /\ fillCall = NoFill
    /\ targetObject = <<>> /\ mergeCall = NoMerge
    /\ array1 = Arr(<<>>) /\ array2 = Arr(<<>>) /\ equalsCall = NoEquals
    /\ disk = NoDisk

NextFullPartitions == FullPartitions \/ EachEntry \/ WhileStep

SpecFullPartitions == InitFullPartitions /\ [][NextFullPartitions]_vars

\* a disk from its construction on
InitDisk ==
    /\ disk = NoDisk
    /\ partitions = <<>> /\ size = NoSize /\ fullPartitionsRun = NoRun
    /\ arr = <<>> /\ value = Undefined /\ prop = NoProp /\ searchCall = NoSearch
    /\ objectList = <<>> /\ fillCall = NoFill
    /\ targetObject = <<>> /\ mergeCall = NoMerge
    /\ array1 = Arr(<<>>) /\ array2 = Arr(<<>>) /\ equalsCall = NoEquals

NextDisk ==
    \/ Load \/ LoadDone \/ LoadFail \/ FillData
    \/ GetPartitions \/ GetPartitionsDone \/ GetPartitionsFail

SpecDisk == InitDisk /\ [][NextDisk]_vars

============================================================================
